---- MODULE Spec2Model ----
(***************************************************************************)
(* The App component of Image-Filtering-and-Segmentation (src/src/App.tsx, *)
(* and its dark-mode revision src/unnamed/part_000) as a state machine.    *)
(*                                                                         *)
(* State: the four React state cells (selectedImage, processedImage,       *)
(* selectedTechnique, isProcessing) as of the last committed render, the   *)
(* updates queued by the handler that is running, the position and locals  *)
(* of a processImage run, the native matrices that are alive, the hidden   *)
(* canvas, the FileReaders in flight, the updates their load callbacks     *)
(* have queued for React's next render, document.body and the browser's    *)
(* download.  JavaScript runs every handler to completion, so while a      *)
(* processImage run is in progress (pc # "idle") no other handler steps.   *)
(***************************************************************************)
EXTENDS Integers, Sequences, FiniteSets, Bags, TLC

VARIABLES
    selectedImage,      \* useState<string | null>: data URL of the upload
    processedImage,     \* useState<string | null>: data URL of the result
    selectedTechnique,  \* useState<string>: "" or a technique name
    isProcessing,       \* useState(false)
    pending,            \* state updates queued by the running handler
    pc,                 \* position of the running handler, "idle" if none
    ip,                 \* index of the next call of the switch branch
    img, dst, kernel,   \* locals of processImage: NULL or a matrix
    heap,               \* names of the native matrices this run holds alive
    leaked,             \* matrices the current run left alive with no handle
    canvas,             \* content of the hidden output canvas
    outcome,            \* how the try block of the current run ended
    logged,             \* console.error calls of the current run
    reads,              \* the FileReaders in flight: a bag of their files
    queued,             \* updates queued by load callbacks, not yet rendered
    lastChosen,         \* the file handed to the latest handleImageUpload
    body,               \* elements the app has appended to document.body
    download,           \* the download the running handler has started
    scriptLoaded,       \* script.onload has run: cv.onRuntimeInitialized is set
    runtimeInitialized  \* the library's runtime is ready

reactState == <<selectedImage, processedImage, selectedTechnique, isProcessing>>
runVars    == <<pending, pc, ip, img, dst, kernel, heap, leaked, canvas, logged>>
uploadVars == <<reads, queued, lastChosen>>
pageVars   == <<body, download>>
vars == <<selectedImage, processedImage, selectedTechnique, isProcessing,
          pending, pc, ip, img, dst, kernel, heap, leaked, canvas,
          outcome, logged, reads, queued, lastChosen, body, download,
          scriptLoaded, runtimeInitialized>>

(*************************** bounds ****************************************)
NumFiles  == 2      \* distinct image files the user can choose
MaxReads  == 2      \* FileReaders in flight at one time

(*************************** values ****************************************)
NULL == [null |-> TRUE]

Files == {[name |-> n, type |-> "image/jpeg"] : n \in 1..NumFiles}

\* FileReader.readAsDataURL: a data: URL carrying the file's type and bytes.
ReadAsDataURL(file) == [scheme |-> "data", mime |-> file.type, data |-> [file |-> file.name]]

(*************************** TECHNIQUES ************************************)
GAUSSIAN      == "Gaussian Blur"
MEDIAN        == "Median Filter"
CANNY         == "Canny Edge Detection"
LAPLACIAN     == "Laplacian Spatial Filter"
BINARY        == "Binary Thresholding"
OTSU          == "Otsu's Thresholding"
MORPHOLOGICAL == "Morphological Cleaning"

\* Object.values(TECHNIQUES.FILTERING), in key order.
FILTERING == <<GAUSSIAN, MEDIAN, CANNY, LAPLACIAN>>

\* Object.values(TECHNIQUES.SEGMENTATION), in key order.
SEGMENTATION == <<BINARY, OTSU, MORPHOLOGICAL>>

Range(s) == {s[i] : i \in DOMAIN s}

\* The radio inputs as rendered, filters first: both groups carry
\* name="technique", so they form one radio group.
Radios == FILTERING \o SEGMENTATION

\* checked={selectedTechnique === technique}: the radios shown checked.
Checked == {i \in DOMAIN Radios : Radios[i] = selectedTechnique}

\* The values a radio input can hand to setSelectedTechnique.
RadioValues_Extra == Range(FILTERING) \cup Range(SEGMENTATION) \cup {"Sobel Filter"}
RadioValues == Range(FILTERING) \cup Range(SEGMENTATION)

(*************************** the vision library ****************************)
\* One library call: the function, the locals it reads and writes, its
\* numeric arguments and its named (enum / flag) arguments.
Call(fn, src, out, nums, flags) ==
    [fn |-> fn, src |-> src, dst |-> out, nums |-> nums, flags |-> flags]

CvtGray == Call("cvtColor", "img", "img", <<>>, {"COLOR_RGBA2GRAY"})
Thresh127 == Call("threshold", "img", "dst", <<127, 255>>, {"THRESH_BINARY"})

\* The switch of processImage: the calls of the branch taken for a
\* technique, in program order; no case matches any other string.
Branch_OtsuFixedThreshold(technique) ==
    CASE technique = GAUSSIAN ->
           <<Call("GaussianBlur", "img", "dst", <<5, 5, 0, 0>>, {"BORDER_DEFAULT"})>>
      [] technique = MEDIAN ->
           <<Call("medianBlur", "img", "dst", <<5>>, {})>>
      [] technique = CANNY ->
           <<CvtGray, Call("Canny", "img", "dst", <<50, 150, 3>>, {})>>
      [] technique = LAPLACIAN ->
           <<CvtGray,
             Call("Laplacian", "img", "dst", <<1, 1, 0>>, {"CV_8U", "BORDER_DEFAULT"})>>
      [] technique = BINARY ->
           <<CvtGray, Thresh127>>
      [] technique = OTSU ->
           <<CvtGray, Thresh127>>
      [] technique = MORPHOLOGICAL ->
           <<CvtGray, Thresh127,
             Call("getStructuringElement", "none", "kernel", <<5, 5>>, {"MORPH_RECT"}),
             Call("morphologyEx", "dst", "dst", <<>>, {"MORPH_OPEN"}),
             Call("delete", "kernel", "none", <<>>, {})>>
      [] OTHER -> <<>>
Branch(technique) ==
    CASE technique = GAUSSIAN ->
           <<Call("GaussianBlur", "img", "dst", <<5, 5, 0, 0>>, {"BORDER_DEFAULT"})>>
      [] technique = MEDIAN ->
           <<Call("medianBlur", "img", "dst", <<5>>, {})>>
      [] technique = CANNY ->
           <<CvtGray, Call("Canny", "img", "dst", <<50, 150, 3>>, {})>>
      [] technique = LAPLACIAN ->
           <<CvtGray,
             Call("Laplacian", "img", "dst", <<1, 1, 0>>, {"CV_8U", "BORDER_DEFAULT"})>>
      [] technique = BINARY ->
           <<CvtGray, Thresh127>>
      [] technique = OTSU ->
           <<CvtGray,
             Call("threshold", "img", "dst", <<0, 255>>, {"THRESH_BINARY", "THRESH_OTSU"})>>
      [] technique = MORPHOLOGICAL ->
           <<CvtGray, Thresh127,
             Call("getStructuringElement", "none", "kernel", <<5, 5>>, {"MORPH_RECT"}),
             Call("morphologyEx", "dst", "dst", <<>>, {"MORPH_OPEN"}),
             Call("delete", "kernel", "none", <<>>, {})>>
      [] OTHER -> <<>>

\* A matrix: the image it was read from, the operations applied since, and
\* its channel count.  The library computes the pixels; the model keeps
\* the term that names them.
Mat(src, ops, channels) == [src |-> src, ops |-> ops, channels |-> channels]

Op(call, extra) == [fn |-> call.fn, nums |-> call.nums, flags |-> call.flags \cup extra]

\* cv.imread(imageElement): the element's picture as a 4-channel RGBA matrix.
cv_imread_Canvas(element) ==
    IF canvas = NULL THEN Mat(element.src, <<>>, 4)
    ELSE Mat(canvas.image.src, canvas.image.ops, 4)
cv_imread(element) == Mat(element.src, <<>>, 4)

\* new cv.Mat(): an empty matrix.
cv_Mat == Mat(NULL, <<>>, 0)

\* The locals of a run after one call of a branch has returned.
Exec(call, env) ==
    CASE call.fn = "cvtColor" ->
           [env EXCEPT ![call.dst] =
               Mat(env[call.src].src, Append(env[call.src].ops, Op(call, {})), 1)]
      [] call.fn \in {"GaussianBlur", "medianBlur", "Laplacian", "threshold"} ->
           [env EXCEPT ![call.dst] =
               Mat(env[call.src].src, Append(env[call.src].ops, Op(call, {})),
                   env[call.src].channels)]
      [] call.fn = "Canny" ->
           [env EXCEPT ![call.dst] =
               Mat(env[call.src].src, Append(env[call.src].ops, Op(call, {})), 1)]
      [] call.fn = "getStructuringElement" ->
           [env EXCEPT ![call.dst] = [shape |-> call.flags, size |-> call.nums]]
      [] call.fn = "morphologyEx" ->
           [env EXCEPT ![call.dst] =
               Mat(env[call.src].src,
                   Append(env[call.src].ops,
                          [fn |-> call.fn, nums |-> env.kernel.size,
                           flags |-> call.flags \cup env.kernel.shape]),
                   env[call.src].channels)]
      [] OTHER -> env

\* The native matrices alive after one call of a branch has returned.
HeapAfter(call, h) ==
    CASE call.fn = "getStructuringElement" -> h \cup {call.dst}
      [] call.fn = "delete" -> h \ {call.src}
      [] OTHER -> h

\* Calls that cannot fail on a live handle: Mat.delete().
CanThrow(call) == call.fn # "delete"

\* cv.imshow(canvas, mat): the matrix converted to RGBA image data and
\* put on the canvas.
cv_imshow(mat) == [image |-> [src |-> mat.src, ops |-> mat.ops], format |-> "RGBA"]

\* canvas.toDataURL(): without a type argument the export is a PNG.
ToDataURL(c) == [scheme |-> "data", mime |-> "image/png", data |-> [png |-> c.image]]

RECURSIVE ExecAll(_, _)
ExecAll(cs, env) == IF cs = <<>> THEN env ELSE ExecAll(Tail(cs), Exec(Head(cs), env))

(*************************** React *****************************************)
Update(cell, value) == [cell |-> cell, value |-> value]

\* The value of a state cell after the queued updates are applied in order.
Latest(ups, cell, cur) ==
    LET at == {i \in DOMAIN ups : ups[i].cell = cell}
    IN  IF at = {} THEN cur
        ELSE ups[CHOOSE i \in at : \A j \in at : j <= i].value

\* A queue of updates without those a later update to the same cell
\* supersedes: React applies a cell's updates in order, so only the last
\* one shows at the render.
RECURSIVE Compact(_)
Compact(ups) ==
    IF ups = <<>> THEN <<>>
    ELSE IF \E j \in DOMAIN Tail(ups) : Tail(ups)[j].cell = Head(ups).cell
         THEN Compact(Tail(ups))
         ELSE <<Head(ups)>> \o Compact(Tail(ups))

\* The queue of a later render once a handler's updates have been rendered
\* ahead of it: an update to a cell that already has one waiting takes its
\* place in the queue behind it, and is applied again by the later render.
Rebase(q, ups) ==
    Compact(q \o SelectSeq(ups, LAMBDA u : \E i \in DOMAIN q : q[i].cell = u.cell))

\* The <img ref={imageRef}> element exists exactly while selectedImage is
\* set, with src = selectedImage; the canvas is always mounted.
imageRef == IF selectedImage = NULL THEN NULL ELSE [tag |-> "img", src |-> selectedImage]
canvasRef == [tag |-> "canvas"]

\* The cells after React has applied the queued updates and rendered.
Commit(ups) ==
    /\ selectedImage'     = Latest(ups, "selectedImage", selectedImage)
    /\ processedImage'    = Latest(ups, "processedImage", processedImage)
    /\ selectedTechnique' = Latest(ups, "selectedTechnique", selectedTechnique)
    /\ isProcessing'      = Latest(ups, "isProcessing", isProcessing)

\* disabled={!selectedImage || !selectedTechnique || isProcessing}
ProcessDisabled == selectedImage = NULL \/ selectedTechnique = "" \/ isProcessing

\* {isProcessing ? 'Processing...' : 'Process Image'}
ProcessLabel == IF isProcessing THEN "Processing..." ELSE "Process Image"

\* disabled={!processedImage}
DownloadDisabled == processedImage = NULL

(*************************** the page **************************************)
ScriptElement == [tag |-> "script", src |-> "https://docs.opencv.org/4.5.4/opencv.js"]

AppendChild(b, el) == b \cup {el}
RemoveChild_Noop(b, el) == b
RemoveChild(b, el) == b \ {el}

\* link.click() on an <a download>: the browser saves href under that name.
Click(link) == [url |-> link.href, filename |-> link.download]

FileLists == {<<>>} \cup {<<f>> : f \in Files} \cup {<<f, g>> : f \in Files, g \in Files}

Init ==
    /\ selectedImage = NULL
    /\ processedImage = NULL
    /\ selectedTechnique = ""
    /\ isProcessing = FALSE
    /\ pending = <<>>
    /\ pc = "idle"
    /\ ip = 0
    /\ img = NULL /\ dst = NULL /\ kernel = NULL
    /\ heap = {}
    /\ leaked = {}
    /\ canvas = NULL
    /\ outcome = "none"
    /\ logged = 0
    /\ reads = EmptyBag
    /\ queued = <<>>
    /\ lastChosen = NULL
    /\ body = {ScriptElement}
    /\ download = NULL
    /\ scriptLoaded = FALSE
    /\ runtimeInitialized = FALSE

(*************************** OpenCV loading ********************************)
\* script.onload: the appended script has been fetched and run; the callback
\* assigns cv.onRuntimeInitialized a function that only logs.  Nothing waits
\* for it, and it may come before or after the runtime is ready, or never.
ScriptOnLoad ==
    /\ pc = "idle"
    /\ ScriptElement \in body
    /\ ~scriptLoaded
    /\ scriptLoaded' = TRUE
    /\ UNCHANGED <<reactState, runVars, uploadVars, outcome, body, download,
                   runtimeInitialized>>

\* The runtime of the imported cv module becomes ready.  The hook, if the
\* script has set it by then, writes a console line and touches no state.
RuntimeInitialized ==
    /\ pc = "idle"
    /\ ~runtimeInitialized
    /\ runtimeInitialized' = TRUE
    /\ UNCHANGED <<reactState, runVars, uploadVars, outcome, body, download,
                   scriptLoaded>>

(*************************** upload ****************************************)
\* handleImageUpload(file): starts a new FileReader on the file, whatever
\* reads are in flight already.  With no file (undefined), readAsDataURL
\* throws a TypeError that no one catches: it leaves the handler.
handleImageUpload(file) ==
    IF file = NULL
    THEN /\ pc' = "uncaught"
         /\ UNCHANGED <<reads, lastChosen>>
    ELSE /\ reads' = reads (+) SetToBag({file})
         /\ lastChosen' = file
         /\ pc' = pc

\* The drop listener: e.dataTransfer?.files, then files && files[0].
handleDrop(hasTransfer, files) ==
    /\ pc = "idle"
    /\ LET f == IF hasTransfer /\ Len(files) > 0 THEN files[1] ELSE NULL
       IN  /\ f # NULL => BagCardinality(reads) < MaxReads
           /\ IF f # NULL
              THEN handleImageUpload(f)
              ELSE UNCHANGED <<pc, reads, lastChosen>>
    /\ UNCHANGED <<reactState, pending, ip, img, dst, kernel, heap, leaked, canvas,
                   logged, outcome, queued, body, download, scriptLoaded,
                   runtimeInitialized>>

\* onChange of the file input: e.target.files && handleImageUpload(files[0]);
\* the FileList object is always there, files[0] is undefined when empty.
FileInputChange(files) ==
    /\ pc = "idle"
    /\ LET f == IF Len(files) > 0 THEN files[1] ELSE NULL
       IN  /\ f # NULL => BagCardinality(reads) < MaxReads
           /\ handleImageUpload(f)
    /\ UNCHANGED <<reactState, pending, ip, img, dst, kernel, heap, leaked, canvas,
                   logged, outcome, queued, body, download, scriptLoaded,
                   runtimeInitialized>>

\* reader.onload of one of the readers in flight: setSelectedImage(result);
\* setProcessedImage(null).  The callback runs outside any React event
\* handler: both updates are queued and it returns; the cells and the
\* rendered <img> change when React renders them.
ReaderOnLoad(file) ==
    /\ pc = "idle"
    /\ BagIn(file, reads)
    /\ reads' = reads (-) SetToBag({file})
    /\ queued' = Compact(queued \o <<Update("selectedImage", ReadAsDataURL(file)),
                                      Update("processedImage", NULL)>>)
    /\ UNCHANGED <<reactState, runVars, outcome, lastChosen, body, download,
                   scriptLoaded, runtimeInitialized>>

\* React renders the updates the load callbacks have queued, in one batch.
\* It does so at once where the callback's updates are rendered
\* synchronously, and in a later task where they are scheduled; in between
\* other events are handled on the previous render.
RenderQueued ==
    /\ pc = "idle"
    /\ queued # <<>>
    /\ Commit(queued)
    /\ queued' = <<>>
    /\ UNCHANGED <<runVars, outcome, reads, lastChosen, body, download,
                   scriptLoaded, runtimeInitialized>>

(*************************** technique selection ***************************)
\* onChange of a radio input: setSelectedTechnique(e.target.value).
setSelectedTechnique(technique) ==
    /\ pc = "idle"
    /\ technique \in RadioValues
    /\ technique # selectedTechnique
    /\ Commit(<<Update("selectedTechnique", technique)>>)
    /\ UNCHANGED <<runVars, uploadVars, outcome, body, download, scriptLoaded, runtimeInitialized>>

(*************************** download **************************************)
\* downloadImage: a temporary <a download> is appended to the body,
\* clicked and removed.
downloadImage ==
    /\ pc = "idle"
    /\ IF processedImage = NULL
       THEN UNCHANGED <<pc, download, body>>
       ELSE LET link == [tag |-> "a", href |-> processedImage,
                         download |-> "processed-image.png"]
            IN  /\ download' = Click(link)
                /\ body' = RemoveChild(AppendChild(body, link), link)
                /\ pc' = "download"
    /\ UNCHANGED <<reactState, pending, ip, img, dst, kernel, heap, leaked, canvas,
                   logged, outcome, uploadVars, scriptLoaded, runtimeInitialized>>

\* A handler that ended outside the normal path gives control back to the
\* event loop: processImage after its early return, an upload handler
\* whose exception was reported, downloadImage once the browser has taken
\* the download.
Return ==
    /\ pc \in {"returned", "uncaught", "download"}
    /\ pc' = "idle"
    /\ download' = NULL
    /\ UNCHANGED <<reactState, pending, ip, img, dst, kernel, heap, leaked, canvas,
                   logged, outcome, uploadVars, body, scriptLoaded, runtimeInitialized>>

(*************************** processImage **********************************)
\* if (!selectedImage || !selectedTechnique || !imageRef.current ||
\*     !canvasRef.current) return;
ProcessGuard_NoTechnique ==
    /\ selectedImage # NULL
    /\ imageRef # NULL
    /\ canvasRef # NULL
ProcessGuard ==
    /\ selectedImage # NULL
    /\ selectedTechnique # ""
    /\ imageRef # NULL
    /\ canvasRef # NULL

\* Whether a library call throws is the library's business: either.
Throws == BOOLEAN

\* The variables no statement of processImage touches.
outside == <<reads, queued, lastChosen, body, download, scriptLoaded, runtimeInitialized>>

\* Entry of processImage: the guard, then setIsProcessing(true), which
\* queues the update (the cell changes at the next render).  The handler is
\* taken in every idle state, which covers every state in which the Process
\* button dispatches it.
processImage ==
    /\ pc = "idle"
    /\ IF ProcessGuard
       THEN /\ pending' = <<Update("isProcessing", TRUE)>>
            /\ pc' = "imread"
       ELSE /\ pc' = "returned"
            /\ UNCHANGED pending
    /\ UNCHANGED <<reactState, ip, img, dst, kernel, heap, leaked, canvas, logged,
                   outcome, outside>>

\* A library call throws: control leaves the try block, whose locals
\* (const img, let dst, const kernel) go out of scope; the matrices they
\* held alive stay alive with no handle left to delete them.
Throw ==
    /\ pc' = "catch"
    /\ leaked' = leaked \cup heap
    /\ heap' = {}
    /\ img' = NULL /\ dst' = NULL /\ kernel' = NULL
    /\ ip' = 0

\* const img = cv.imread(imageRef.current);  Until the library's runtime
\* is initialized the call cannot succeed.
Imread ==
    /\ pc = "imread"
    /\ \E throws \in Throws :
          IF throws \/ ~runtimeInitialized
          THEN Throw
          ELSE /\ img' = cv_imread(imageRef)
               /\ heap' = heap \cup {"img"}
               /\ pc' = "newMat"
               /\ UNCHANGED <<dst, kernel, leaked, ip>>
    /\ UNCHANGED <<reactState, pending, canvas, outcome, logged, outside>>

\* let dst = new cv.Mat();
NewMat ==
    /\ pc = "newMat"
    /\ \E throws \in Throws :
          IF throws
          THEN Throw
          ELSE /\ dst' = cv_Mat
               /\ heap' = heap \cup {"dst"}
               /\ ip' = 1
               /\ pc' = IF Branch(selectedTechnique) = <<>> THEN "imshow" ELSE "switch"
               /\ UNCHANGED <<img, kernel, leaked>>
    /\ UNCHANGED <<reactState, pending, canvas, outcome, logged, outside>>

\* One call of the case of the switch that selectedTechnique selects.
SwitchCall ==
    /\ pc = "switch"
    /\ LET branch == Branch(selectedTechnique)
           call   == branch[ip]
           env    == Exec(call, [img |-> img, dst |-> dst, kernel |-> kernel])
       IN  \E throws \in Throws :
              IF throws /\ CanThrow(call)
              THEN Throw
              ELSE /\ img' = env.img
                   /\ dst' = env.dst
                   /\ kernel' = env.kernel
                   /\ heap' = HeapAfter(call, heap)
                   /\ ip' = ip + 1
                   /\ pc' = IF ip = Len(branch) THEN "imshow" ELSE "switch"
                   /\ UNCHANGED leaked
    /\ UNCHANGED <<reactState, pending, canvas, outcome, logged, outside>>

\* cv.imshow(canvasRef.current, dst);
Imshow ==
    /\ pc = "imshow"
    /\ \E throws \in Throws :
          IF throws
          THEN Throw /\ UNCHANGED canvas
          ELSE /\ canvas' = cv_imshow(dst)
               /\ pc' = "toDataURL"
               /\ UNCHANGED <<img, dst, kernel, heap, leaked, ip>>
    /\ UNCHANGED <<reactState, pending, outcome, logged, outside>>

\* setProcessedImage(canvasRef.current.toDataURL());
setProcessedImage_Input ==
    /\ pc = "toDataURL"
    /\ pending' = Append(pending, Update("processedImage", selectedImage))
    /\ pc' = "delete"
    /\ UNCHANGED <<reactState, ip, img, dst, kernel, heap, leaked, canvas, outcome,
                   logged, outside>>
setProcessedImage ==
    /\ pc = "toDataURL"
    /\ pending' = Append(pending, Update("processedImage", ToDataURL(canvas)))
    /\ pc' = "delete"
    /\ UNCHANGED <<reactState, ip, img, dst, kernel, heap, leaked, canvas, outcome,
                   logged, outside>>

\* img.delete(); dst.delete();  -- the last statements of the try block,
\* after which its locals go out of scope.
DeleteMats ==
    /\ pc = "delete"
    /\ leaked' = leaked \cup (heap \ {"img", "dst"})
    /\ heap' = {}
    /\ img' = NULL /\ dst' = NULL /\ kernel' = NULL
    /\ ip' = 0
    /\ outcome' = "ok"
    /\ pc' = "finally"
    /\ UNCHANGED <<reactState, pending, canvas, logged, outside>>

\* catch (error) { console.error('Error processing image:', error); }
Catch_ClearsResult ==
    /\ pc = "catch"
    /\ logged' = logged + 1
    /\ outcome' = "threw"
    /\ pending' = Append(pending, Update("processedImage", NULL))
    /\ pc' = "finally"
    /\ UNCHANGED <<reactState, ip, img, dst, kernel, heap, leaked, canvas, outside>>
Catch ==
    /\ pc = "catch"
    /\ logged' = logged + 1
    /\ outcome' = "threw"
    /\ pc' = "finally"
    /\ UNCHANGED <<reactState, pending, ip, img, dst, kernel, heap, leaked, canvas,
                   outside>>

\* finally { setIsProcessing(false); }
Finally ==
    /\ pc = "finally"
    /\ pending' = Append(pending, Update("isProcessing", FALSE))
    /\ pc' = "render"
    /\ UNCHANGED <<reactState, ip, img, dst, kernel, heap, leaked, canvas, outcome,
                   logged, outside>>

\* The click handler has returned: React applies its updates in one batch
\* and renders once, ahead of updates of load callbacks still waiting for
\* their render, which stay queued.
Render ==
    /\ pc = "render"
    /\ Commit(pending)
    /\ pending' = <<>>
    /\ queued' = Rebase(queued, pending)
    /\ logged' = 0
    /\ leaked' = {}
    /\ outcome' = "none"
    /\ pc' = "idle"
    /\ UNCHANGED <<ip, img, dst, kernel, heap, canvas,
                   reads, lastChosen, body, download, scriptLoaded, runtimeInitialized>>

Next ==
    \/ ScriptOnLoad
    \/ RuntimeInitialized
    \/ \E t \in BOOLEAN, files \in FileLists : handleDrop(t, files)
    \/ \E files \in FileLists : FileInputChange(files)
    \/ \E file \in Files : ReaderOnLoad(file)
    \/ RenderQueued
    \/ \E technique \in RadioValues : setSelectedTechnique(technique)
    \/ downloadImage
    \/ Return
    \/ processImage
    \/ Imread
    \/ NewMat
    \/ SwitchCall
    \/ Imshow
    \/ setProcessedImage
    \/ DeleteMats
    \/ Catch
    \/ Finally
    \/ Render

Spec == Init /\ [][Next]_vars

(***************************************************************************)
(* Properties                                                              *)
(***************************************************************************)
\* Positions inside the body of processImage, after its guard.
InTry == {"imread", "newMat", "switch", "imshow", "toDataURL", "delete"}
InRun == InTry \cup {"catch", "finally"}

\* C1: after every processing run that got past its guard, however it
\* ended, every native matrix it allocated (img, dst, the kernel) has been
\* deleted: when the run hands over to React, none of them is alive.
C1_NoMatrixLeftBehind == pc = "render" => heap = {} /\ leaked = {}

\* The operations the spec names for each technique, written out: those
\* applied to the source matrix and those that produced the destination.
Gray == [fn |-> "cvtColor", nums |-> <<>>, flags |-> {"COLOR_RGBA2GRAY"}]
Binary127 == [fn |-> "threshold", nums |-> <<127, 255>>, flags |-> {"THRESH_BINARY"}]
C2_Sequence(technique) ==
    CASE technique = "Gaussian Blur" ->
           [img |-> <<>>,
            dst |-> <<[fn |-> "GaussianBlur", nums |-> <<5, 5, 0, 0>>,
                       flags |-> {"BORDER_DEFAULT"}]>>]
      [] technique = "Median Filter" ->
           [img |-> <<>>,
            dst |-> <<[fn |-> "medianBlur", nums |-> <<5>>, flags |-> {}]>>]
      [] technique = "Canny Edge Detection" ->
           [img |-> <<Gray>>,
            dst |-> <<Gray, [fn |-> "Canny", nums |-> <<50, 150, 3>>, flags |-> {}]>>]
      [] technique = "Laplacian Spatial Filter" ->
           [img |-> <<Gray>>,
            dst |-> <<Gray, [fn |-> "Laplacian", nums |-> <<1, 1, 0>>,
                             flags |-> {"CV_8U", "BORDER_DEFAULT"}]>>]
      [] technique = "Binary Thresholding" ->
           [img |-> <<Gray>>, dst |-> <<Gray, Binary127>>]
      [] technique = "Otsu's Thresholding" ->
           [img |-> <<Gray>>,
            dst |-> <<Gray, [fn |-> "threshold", nums |-> <<0, 255>>,
                             flags |-> {"THRESH_BINARY", "THRESH_OTSU"}]>>]
      [] technique = "Morphological Cleaning" ->
           [img |-> <<Gray>>,
            dst |-> <<Gray, Binary127,
                      [fn |-> "morphologyEx", nums |-> <<5, 5>>,
                       flags |-> {"MORPH_OPEN", "MORPH_RECT"}]>>]
      [] OTHER -> [img |-> <<>>, dst |-> <<>>]

\* C2: when the switch of a run has completed, the source and destination
\* matrices carry exactly the fixed sequence of library operations of the
\* selected technique, on the image read from the selected-image element,
\* and nothing of another technique; the kernel is deleted again.
C2_CorrectDispatch ==
    pc = "imshow" =>
        /\ img.src = selectedImage /\ dst.src = selectedImage
        /\ img.ops = C2_Sequence(selectedTechnique).img
        /\ dst.ops = C2_Sequence(selectedTechnique).dst
        /\ dst.ops # <<>>
        /\ heap = {"img", "dst"}

\* A run of Morphological Cleaning whose switch has completed.
C2_Witness == pc = "imshow" /\ selectedTechnique = "Morphological Cleaning"

\* C3: selectedTechnique is "" or one of seven pairwise distinct names,
\* four filters and three segmentation methods, in one radio group with at
\* most one radio checked, and every selectable name has a case in the
\* switch of processImage.
C3_OneOfSeven ==
    /\ selectedTechnique \in {""} \cup Range(FILTERING) \cup Range(SEGMENTATION)
    /\ Len(FILTERING) = 4 /\ Len(SEGMENTATION) = 3
    /\ Cardinality(Range(FILTERING) \cup Range(SEGMENTATION)) = 7
    /\ "" \notin RadioValues
    /\ Cardinality(Checked) = IF selectedTechnique = "" THEN 0 ELSE 1
    /\ \A t \in (RadioValues \cup {selectedTechnique}) \ {""} : Branch(t) # <<>>

\* A segmentation method is selected after a filter result was produced.
C3_Witness ==
    /\ selectedTechnique \in Range(SEGMENTATION)
    /\ processedImage # NULL
    /\ processedImage.data.png.ops[Len(processedImage.data.png.ops)].fn = "GaussianBlur"

\* The destination matrix of one run of a technique on an image element,
\* taken alone: the branch applied to the matrix read from the element.
RunDst(technique, element) ==
    ExecAll(Branch(technique),
            [img |-> cv_imread(element), dst |-> cv_Mat, kernel |-> NULL]).dst

\* C4: when a run in which no library call threw hands over to React, the
\* canvas shows the destination matrix of the selected technique applied
\* to the selected image, and the render that follows makes processedImage
\* the PNG export of that canvas, which enables the download button.
C4_ResultShown ==
    [][pc = "render" /\ outcome = "ok" =>
         /\ canvas' = cv_imshow(RunDst(selectedTechnique, imageRef))
         /\ canvas'.image.src = selectedImage'
         /\ processedImage' = ToDataURL(canvas')
         /\ processedImage'.data.png = canvas'.image
         /\ ~DownloadDisabled'
         /\ pc' = "idle"]_vars

\* A result is on display and no handler is running.
C4_Witness == pc = "idle" /\ processedImage # NULL /\ canvas # NULL

\* C5: a download starts only from a state with a processed result (the
\* state in which the button is enabled); it saves exactly the current
\* processedImage, a PNG, as 'processed-image.png'; it changes none of the
\* four state cells; and the body never keeps the temporary link.  With
\* processedImage null nothing is appended and nothing is downloaded.
C5_Download ==
    /\ [](body = {ScriptElement})
    /\ [](download # NULL =>
            /\ pc = "download"
            /\ ~DownloadDisabled
            /\ download.url = processedImage
            /\ download.url.mime = "image/png"
            /\ download.filename = "processed-image.png")
    /\ [][(download' # download \/ pc' = "download" \/ pc = "download") =>
            UNCHANGED <<selectedImage, processedImage, selectedTechnique,
                        isProcessing>>]_vars
    /\ [][pc = "idle" /\ processedImage = NULL => download' = NULL /\ pc' # "download"]_vars
    /\ [][pc = "idle" /\ pc' = "download" => download' # NULL]_vars

\* The browser is saving a processed result.
C5_Witness == pc = "download" /\ download # NULL /\ download.url = processedImage

\* C6: an exception thrown by a library call is caught inside processImage
\* (control goes to the catch block, then finally, then back to the event
\* loop), it is logged exactly once, and the run leaves selectedImage,
\* selectedTechnique and processedImage as they were: no step of a run
\* changes them before the render, and the render after a throw does not.
C6_CatchAllLog ==
    [][/\ (pc \in InRun => UNCHANGED <<selectedImage, selectedTechnique,
                                       processedImage, isProcessing>>)
       /\ (pc \in InTry /\ pc' \notin InTry \cup {"finally"} =>
               pc' = "catch" /\ logged' = 0)
       /\ (pc = "catch" => pc' = "finally" /\ logged' = 1 /\ outcome' = "threw")
       /\ (pc = "finally" /\ outcome = "threw" => pc' = "render" /\ logged' = 1)
       /\ (pc = "render" /\ outcome = "threw" =>
               /\ logged = 1
               /\ pc' = "idle"
               /\ UNCHANGED <<selectedImage, selectedTechnique, processedImage>>)]_vars

\* A run that threw is about to return while an earlier result is shown.
C6_Witness == pc = "render" /\ outcome = "threw" /\ processedImage # NULL

\* C7: isProcessing is true from the start of a processing run until the
\* run finishes, and false at all other times; while it is true the
\* Process button is disabled and labelled 'Processing...'.
C7_LoadingState ==
    /\ (pc \in InRun =>
            isProcessing /\ ProcessDisabled /\ ProcessLabel = "Processing...")
    /\ (pc \notin InRun \cup {"render"} => ~isProcessing)

\* C8: a file accepted by the drop listener or by the file input starts a
\* read and changes no state; when a read completes its callback hands React
\* the file's data URL for selectedImage together with null for
\* processedImage; and the render in which selectedImage changes is the
\* render of those updates and leaves selectedImage at that data URL and
\* processedImage at null, with selectedTechnique and isProcessing unchanged.
C8_Upload ==
    [][/\ (BagCardinality(reads') > BagCardinality(reads) =>
               /\ reads' = reads (+) SetToBag({lastChosen'})
               /\ UNCHANGED <<selectedImage, processedImage, selectedTechnique,
                              isProcessing, queued>>)
       /\ (BagCardinality(reads') < BagCardinality(reads) =>
               \E file \in BagToSet(reads) :
                  /\ reads' = reads (-) SetToBag({file})
                  /\ Latest(queued', "selectedImage", NULL) =
                        [scheme |-> "data", mime |-> file.type,
                         data |-> [file |-> file.name]]
                  /\ Latest(queued', "processedImage", selectedImage') = NULL)
       /\ (selectedImage' # selectedImage =>
               /\ queued # <<>> /\ queued' = <<>>
               /\ selectedImage' = Latest(queued, "selectedImage", NULL)
               /\ processedImage' = NULL
               /\ UNCHANGED <<selectedTechnique, isProcessing>>)]_vars

\* C9: whenever the Process button is enabled the guard of processImage
\* passes; a run starts only from a state with an image and a technique;
\* and processImage entered without one of them returns at once, having
\* called nothing and changed nothing (no state cell, no queued update, no
\* matrix, not the canvas).
C9_GuardedRun ==
    /\ [](~ProcessDisabled <=>
            selectedImage # NULL /\ selectedTechnique # "" /\ ~isProcessing)
    /\ [](~ProcessDisabled => ProcessGuard)
    /\ [](pc \in InRun => selectedImage # NULL /\ selectedTechnique # "")
    /\ [][pc = "idle" /\ (selectedImage = NULL \/ selectedTechnique = "") =>
            pc' \notin InRun]_vars
    /\ [][pc' = "returned" =>
            /\ pc = "idle"
            /\ selectedImage = NULL \/ selectedTechnique = ""
            /\ ProcessDisabled
            /\ UNCHANGED <<selectedImage, processedImage, selectedTechnique,
                           isProcessing, pending, img, dst, kernel, heap, leaked,
                           canvas, logged>>]_vars

\* processImage has returned early: an image is there, no technique is.
C9_Witness == pc = "returned" /\ selectedImage # NULL /\ selectedTechnique = ""

\* C10: the matrix a run reads is the picture of the selected-image
\* element, never the canvas or an earlier result, and the result a
\* successful run hands to React is fixed by the selected image and the
\* selected technique alone, whatever results earlier runs had produced; so
\* running a technique again gives the result it gave before.
C10_NoCompounding ==
    /\ [](img # NULL => img.src = selectedImage)
    /\ [](pc = "newMat" => img.ops = <<>>)
    /\ [][pc = "render" /\ outcome = "ok" =>
            processedImage'.data.png =
                [src |-> selectedImage, ops |-> C2_Sequence(selectedTechnique).dst]]_vars

\* A technique has run successfully a second time in a row on the same
\* image: its earlier result is on display as the new one is handed over.
C10_Witness ==
    /\ pc = "render" /\ outcome = "ok"
    /\ processedImage # NULL
    /\ processedImage.data.png.src = selectedImage
    /\ processedImage.data.png.ops = C2_Sequence(selectedTechnique).dst

\* C11: in every reachable state a result on display, and a download under
\* way, was computed from the image that is selected now: its picture is the
\* canvas drawing of a matrix read from the current selectedImage.  An upload
\* that replaces selectedImage takes the earlier result away in the same step.
C11_ResultOfCurrentImage ==
    /\ processedImage # NULL =>
          /\ selectedImage # NULL
          /\ processedImage.data.png.src = selectedImage
    /\ download # NULL => download.url.data.png.src = selectedImage

\* C12: once every read that was started has completed and React has
\* rendered what the callbacks queued, selectedImage is the
\* data URL of the file handed to the latest handleImageUpload, whatever
\* order the onload callbacks came in.
C12_LastChosenWins ==
    reads = EmptyBag /\ queued = <<>> /\ lastChosen # NULL =>
        selectedImage = ReadAsDataURL(lastChosen)

\* C13: an upload event that carries no file raises no error: no handler of
\* the drop zone or of the file input is left by an exception.  (The four
\* state cells do stay as they were: handleImageUpload sets none of them
\* before the read completes.)
C13_NoFileNoError == pc # "uncaught"

\* C14: a run that is about to make its first library call, cv.imread, finds
\* the library's runtime initialized, whatever the order of script load,
\* runtime initialization, upload, technique selection and Process.
C14_InitializedBeforeLibrary == pc = "imread" => runtimeInitialized

====
